---- MODULE Spec2Model ----
(***************************************************************************)
(* Request instrumentation of the Express demo service (src/index.js and   *)
(* its Loki variant src/unnamed/part_000): the middleware that times every *)
(* request and, on the response's 'finish' event, updates the Prometheus   *)
(* counter and histogram and writes the 'Request completed' log record;    *)
(* the /normal, /abnormal and /metrics handlers; the winston logger.       *)
(*                                                                         *)
(* JavaScript runs each callback to completion on one thread, so every     *)
(* action below is one callback: the arrival of a request (middleware and  *)
(* the synchronous part of its handler), the expiry of the slow branch's   *)
(* timer, the continuation of the /metrics handler after its await, and    *)
(* the 'finish' callback.  Times are in milliseconds; the histogram's      *)
(* values and bounds are kept in milliseconds too (seconds * 1000).        *)
(***************************************************************************)
EXTENDS Integers, Sequences, FiniteSets, TLC

\* ------------------------------------------------------------------ bounds
MaxReqs == 2          \* requests received in one run
MaxTicks == 1         \* clock advances in one run

\* ------------------------------------------------------- program constants
DelayMs == 3000       \* setTimeout(resolve, 3000)
FastBand == 30        \* random < 0.3, in hundredths
ErrorBand == 60       \* random < 0.6, in hundredths
StatusOk == 200       \* the default res.statusCode
StatusError == 500    \* res.status(500)
StatusNotFound == 404 \* Express's answer when no route matches

Reqs == 1..MaxReqs
Variants == {"index", "loki"}
Methods == {"GET", "POST"}
Paths == {"/normal", "/abnormal", "/metrics", "/users/42"}
Routes == {"/normal", "/abnormal", "/metrics"}
RandomValues == {29, 30, 60}   \* Math.random(), in hundredths
TickSteps == {DelayMs}

\* buckets: [0.1, 0.5, 1, 2, 5, 50, 100, 200, 500, 1000] seconds, in ms
Buckets == <<100, 500, 1000, 2000, 5000, 50000, 100000, 200000, 500000, 1000000>>

VARIABLES
  variant,   \* which of the two builds runs: "index" (src/index.js) or "loki" (part_000)
  alive,     \* the process is running
  now,       \* Date.now()
  nextId,    \* the number of requests received so far, plus one
  req,       \* per request: method, path, start, random, pc, state, conn, timer
  res,       \* per request: the response (statusCode, body, ended)
  counter,   \* http_requests_total: label combination -> value (existing series only)
  hist,      \* http_response_time_seconds: label combination -> count, sum, buckets
  log,       \* the records handed to the logger, in call order
  calls,     \* per request: the registry calls its completion callback has made
  scraped,   \* per /metrics request: the registry as read by register.metrics()
  thrown,    \* the requests whose completion callback ended in an exception
  ticks      \* the number of clock advances so far

vars == <<variant, alive, now, nextId, req, res, counter, hist, log, calls,
          scraped, thrown, ticks>>

\* ----------------------------------------------------------------- helpers
NoMeta == [k \in {} |-> 0]
NoRequest == [method |-> "", path |-> "", start |-> 0, random |-> -1,
              pc |-> "idle", state |-> "None", timer |-> 0]
NoResponse == [statusCode |-> StatusOk, body |-> "", ended |-> FALSE]

NormalBody == "{\"message\":\"This is a normal API response\"}"
FastBody == "{\"message\":\"Fast response\"}"
SlowBody == "{\"message\":\"Slow response\"}"
ErrorBody == "{\"error\":\"Internal Server Error\"}"
NotFoundBody == "Not Found"
MetricsBody == "metrics"

\* The route registered for a path, "none" when there is none.
RouteOf(p) == IF p \in Routes THEN p ELSE "none"

\* app.get registers the route for GET only.
Dispatch(m, p) == IF m = "GET" THEN RouteOf(p) ELSE "none"

\* res.json(body) / res.end(body): the body is set and the response is ended.
Send(rs, body) == [rs EXCEPT !.body = body, !.ended = TRUE]

\* res.status(code)
SetStatus(rs, code) == [rs EXCEPT !.statusCode = code]

\* logger.<level>(message, meta): one record handed to the logger.
Rec(level, message, meta, r) ==
  [level |-> level, message |-> message, meta |-> meta, req |-> r]

\* The handlers of src/index.js log their progress; those of the Loki build do not.
IfIndex(recs) == IF variant = "index" THEN recs ELSE <<>>

\* ------------------------------------------------------------------ logger
\* winston's npm levels, most severe first.
Levels == <<"error", "warn", "info", "http", "verbose", "debug", "silly">>

Priority(level) == CHOOSE i \in 1..Len(Levels) : Levels[i] = level

\* level: process.env.NODE_ENV === 'development' ? 'debug' : 'info' in
\* src/index.js, 'info' in the Loki build.
LoggerLevels == IF variant = "index" THEN {"debug", "info"} ELSE {"info"}

\* transports: the console and two rotating files in src/index.js, a file and
\* the console in the Loki build.
Sinks ==
  IF variant = "index" THEN {"console", "applicationFile", "errorFile"}
  ELSE {"file", "console"}

\* A faulty configuration that gives every rotating file the same level.
SinkLevelShared(sink) ==
  IF sink \in {"applicationFile", "errorFile"} THEN "info" ELSE ""

\* The level option of a transport, "" when it has none.
SinkLevel(sink) ==
  CASE sink = "applicationFile" -> "info"
    [] sink = "errorFile" -> "error"
    [] OTHER -> ""

\* winston hands a record to a transport when the logger's level admits it
\* and the transport's own level, or the logger's if it has none, admits it.
Written(sink, rec, loggerLevel) ==
  /\ Priority(rec.level) <= Priority(loggerLevel)
  /\ Priority(rec.level) <=
       Priority(IF SinkLevel(sink) = "" THEN loggerLevel ELSE SinkLevel(sink))

\* What a transport has been given, in call order.
SinkContents(sink, loggerLevel) ==
  LET Takes(rec) == Written(sink, rec, loggerLevel) IN SelectSeq(log, Takes)

\* ---------------------------------------------------------------- registry
\* A faulty inc that takes the create-the-series path on every call.
incOverwrite(c, l) == [k \in DOMAIN c \cup {l} |-> IF k = l THEN 1 ELSE c[k]]

\* Counter.inc(labels): the series is created at zero if absent, then raised by 1.
inc(c, l) ==
  IF l \in DOMAIN c THEN [c EXCEPT ![l] = @ + 1]
  ELSE [k \in DOMAIN c \cup {l} |-> IF k = l THEN 1 ELSE c[k]]

ZeroHist == [count |-> 0, sum |-> 0, buckets |-> [i \in 1..Len(Buckets) |-> 0]]

\* A faulty observation that raises only the first bucket that holds the value.
ObservedSingleBucket(e, v) ==
  [count |-> e.count + 1,
   sum |-> e.sum + v,
   buckets |-> [i \in 1..Len(Buckets) |->
                  IF v <= Buckets[i] /\ (i = 1 \/ v > Buckets[i - 1])
                  THEN e.buckets[i] + 1 ELSE e.buckets[i]]]

\* A faulty observation that leaves a value out of the bucket whose bound it equals.
ObservedStrict(e, v) ==
  [count |-> e.count + 1,
   sum |-> e.sum + v,
   buckets |-> [i \in 1..Len(Buckets) |->
                  IF v < Buckets[i] THEN e.buckets[i] + 1 ELSE e.buckets[i]]]

\* One observation: count, sum and every bucket whose bound is >= the value.
Observed(e, v) ==
  [count |-> e.count + 1,
   sum |-> e.sum + v,
   buckets |-> [i \in 1..Len(Buckets) |->
                  IF v <= Buckets[i] THEN e.buckets[i] + 1 ELSE e.buckets[i]]]

\* A faulty observation that reaches every series of the histogram.
observeAll(h, l, v) ==
  [k \in DOMAIN h \cup {l} |->
     IF k \in DOMAIN h THEN Observed(h[k], v) ELSE Observed(ZeroHist, v)]

\* Histogram.observe(labels, value)
observe(h, l, v) ==
  IF l \in DOMAIN h THEN [h EXCEPT ![l] = Observed(@, v)]
  ELSE [k \in DOMAIN h \cup {l} |-> IF k = l THEN Observed(ZeroHist, v) ELSE h[k]]

\* ------------------------------------------------------------- middleware
\* const duration = (Date.now() - start) / 1000, kept in milliseconds
Duration(r) == now - req[r].start

\* A faulty callback that uses the status the response started with.
FinalStatusAtEntry(r) == StatusOk

\* const status = res.statusCode
FinalStatus(r) == res[r].statusCode

\* A faulty increment with the method and endpoint values exchanged.
IncLabelsSwapped(r) ==
  [method |-> req[r].path, endpoint |-> req[r].method, status |-> FinalStatus(r)]

\* requestCounter.inc({ method: req.method, endpoint: req.path, status })
IncLabels(r) ==
  [method |-> req[r].method, endpoint |-> req[r].path, status |-> FinalStatus(r)]

\* A faulty observation that labels with the status the response started with.
ObserveLabelsDefaultStatus(r) ==
  [method |-> req[r].method, endpoint |-> req[r].path, status |-> StatusOk]

\* responseTimeHistogram.observe({ method: req.method, endpoint: req.path, status }, duration)
ObserveLabels(r) ==
  [method |-> req[r].method, endpoint |-> req[r].path, status |-> FinalStatus(r)]

\* logger.info('Request completed', { method, endpoint, status, duration, time })
CompletedRec(r) ==
  Rec("info", "Request completed",
      [method |-> req[r].method, endpoint |-> req[r].path,
       status |-> FinalStatus(r), duration |-> Duration(r), time |-> now], r)

\* A faulty delay that sleeps on the thread instead of awaiting a timer.
HoldingSleep == {r \in Reqs : req[r].pc = "delay"}

\* The requests that hold the JavaScript thread between two callbacks.  The
\* slow branch awaits its timer (await new Promise(... setTimeout ...)), which
\* suspends the handler and gives the thread back: no request holds it.
Holding == {r \in Reqs : FALSE}

\* --------------------------------------------------------------- handlers
\* What a handler has done when it returns or reaches its first await.
Outcome(rs, pc, timer, logs) == [res |-> rs, pc |-> pc, timer |-> timer, logs |-> logs]

\* A faulty /normal handler that answers with the wrong message.
NormalHandlerFast(r) ==
  Outcome(Send(NoResponse, FastBody), "ended", 0,
          IfIndex(<<Rec("info", "Normal endpoint called", NoMeta, r)>>))

\* app.get('/normal')
NormalHandler(r) ==
  Outcome(Send(NoResponse, NormalBody), "ended", 0,
          IfIndex(<<Rec("info", "Normal endpoint called", NoMeta, r)>>))

\* A faulty /abnormal handler whose first band takes its boundary value too.
AbnormalHandlerInclusive(r, m, p, random) ==
  LET called == IfIndex(<<Rec("info", "Abnormal endpoint called", NoMeta, r)>>) IN
  IF random <= FastBand THEN
    Outcome(Send(NoResponse, FastBody), "ended", 0,
            called \o IfIndex(<<Rec("info", "Fast response sent", NoMeta, r)>>))
  ELSE IF random < ErrorBand THEN
    Outcome(Send(SetStatus(NoResponse, StatusError), ErrorBody), "ended", 0,
            called \o IfIndex(<<Rec("error", "Internal Server Error occurred",
                                     [endpoint |-> p, method |-> m], r)>>))
  ELSE
    Outcome(NoResponse, "delay", DelayMs, called)

\* app.get('/abnormal'), up to its return or its await; random is in hundredths
AbnormalHandler(r, m, p, random) ==
  LET called == IfIndex(<<Rec("info", "Abnormal endpoint called", NoMeta, r)>>) IN
  IF random < FastBand THEN
    Outcome(Send(NoResponse, FastBody), "ended", 0,
            called \o IfIndex(<<Rec("info", "Fast response sent", NoMeta, r)>>))
  ELSE IF random < ErrorBand THEN
    Outcome(Send(SetStatus(NoResponse, StatusError), ErrorBody), "ended", 0,
            called \o IfIndex(<<Rec("error", "Internal Server Error occurred",
                                     [endpoint |-> p, method |-> m], r)>>))
  ELSE
    Outcome(NoResponse, "delay", DelayMs, called)

\* app.get('/metrics'), up to its await of register.metrics()
MetricsHandler(r) == Outcome(NoResponse, "awaitMetrics", 0, <<>>)

\* Express's final handler when no route matches
NotFoundHandler(r) ==
  Outcome(Send(SetStatus(NoResponse, StatusNotFound), NotFoundBody), "ended", 0, <<>>)

\* The bucket lines the exposition gives for one histogram series: one per
\* configured bound, then le="+Inf", which carries the series' count.
BucketLines(e) == Append(e.buckets, e.count)

\* register.metrics(): the registry as it stands when the handler calls it
Collect == [counter |-> counter, hist |-> hist]

\* ------------------------------------------------------------------- Init
Init ==
  /\ variant \in Variants
  /\ alive = TRUE
  /\ now = 0
  /\ nextId = 1
  /\ req = [r \in Reqs |-> NoRequest]
  /\ res = [r \in Reqs |-> NoResponse]
  /\ counter = <<>>
  /\ hist = <<>>
  /\ log = <<>>
  /\ calls = [r \in Reqs |-> <<>>]
  /\ scraped = <<>>
  /\ thrown = {}
  /\ ticks = 0

\* ---------------------------------------------------------------- actions
\* A faulty middleware that counts the request as it arrives.
EntryCounts(m, p) ==
  /\ counter' = inc(counter, [method |-> m, endpoint |-> p, status |-> StatusOk])
  /\ UNCHANGED <<hist, calls>>

\* A faulty middleware that builds its metrics anew for each request.
EntryResets(m, p) ==
  /\ counter' = <<>>
  /\ hist' = <<>>
  /\ UNCHANGED calls

\* What the middleware does to the registry when a request arrives: nothing.
\* It takes the start time, registers the 'finish' listener and calls next().
EntryRegistry(m, p) == UNCHANGED <<counter, hist, calls>>

\* A request arrives: the middleware takes the start time and registers the
\* 'finish' listener, next() runs the matching handler up to its return or
\* its first await.
Enter(m, p) ==
  /\ alive
  /\ Holding = {}
  /\ nextId <= MaxReqs
  /\ LET r == nextId
         route == Dispatch(m, p)
     IN \E random \in (IF route = "/abnormal" THEN RandomValues ELSE {-1}) :
        LET o == CASE route = "/normal" -> NormalHandler(r)
                   [] route = "/abnormal" -> AbnormalHandler(r, m, p, random)
                   [] route = "/metrics" -> MetricsHandler(r)
                   [] OTHER -> NotFoundHandler(r)
        IN /\ req' = [req EXCEPT ![r] = [method |-> m, path |-> p, start |-> now,
                                         random |-> random, pc |-> o.pc,
                                         state |-> "Started", timer |-> o.timer]]
           /\ res' = [res EXCEPT ![r] = o.res]
           /\ log' = log \o o.logs
           /\ scraped' = IF route = "/metrics"
                         THEN [k \in DOMAIN scraped \cup {r} |->
                                 IF k = r THEN Collect ELSE scraped[k]]
                         ELSE scraped
  /\ nextId' = nextId + 1
  /\ EntryRegistry(m, p)
  /\ UNCHANGED <<variant, alive, now, thrown, ticks>>

\* A faulty slow branch that returns after its delay without answering.
TimerFireForgets(r) ==
  /\ alive
  /\ Holding \subseteq {r}
  /\ req[r].pc = "delay"
  /\ req[r].timer = 0
  /\ req' = [req EXCEPT ![r].pc = "done"]
  /\ UNCHANGED <<variant, alive, now, nextId, res, counter, hist, log, calls,
                 scraped, thrown, ticks>>

\* The slow branch's timer expires: res.json({ message: 'Slow response' }).
\* On a dropped connection the response is never handed to the socket.
TimerFire(r) ==
  /\ alive
  /\ Holding \subseteq {r}
  /\ req[r].pc = "delay"
  /\ req[r].timer = 0
  /\ res' = [res EXCEPT ![r] = Send(@, SlowBody)]
  /\ req' = [req EXCEPT ![r].pc = IF req[r].state = "Aborted" THEN "done" ELSE "ended"]
  /\ log' = log \o IfIndex(<<Rec("info", "Slow response sent", NoMeta, r)>>)
  /\ UNCHANGED <<variant, alive, now, nextId, counter, hist, calls, scraped, thrown, ticks>>

\* The /metrics handler resumes after its await: res.end(<the text collected>).
MetricsSend(r) ==
  /\ alive
  /\ Holding = {}
  /\ req[r].pc = "awaitMetrics"
  /\ res' = [res EXCEPT ![r] = Send(@, MetricsBody)]
  /\ req' = [req EXCEPT ![r].pc = IF req[r].state = "Aborted" THEN "done" ELSE "ended"]
  /\ UNCHANGED <<variant, alive, now, nextId, counter, hist, log, calls, scraped,
                 thrown, ticks>>

\* A faulty middleware whose callback stays armed after it has run (as when it
\* is registered for every write rather than for the one 'finish' event).
FinishRepeats(r) ==
  /\ alive
  /\ Holding = {}
  /\ req[r].pc = "ended"
  /\ req[r].state \in {"Started", "Completed"}
  /\ Len(calls[r]) < 4
  /\ counter' = inc(counter, IncLabels(r))
  /\ hist' = observe(hist, ObserveLabels(r), Duration(r))
  /\ log' = Append(log, CompletedRec(r))
  /\ calls' = [calls EXCEPT ![r] = @ \o <<[op |-> "inc", labels |-> IncLabels(r)],
                                          [op |-> "observe", labels |-> ObserveLabels(r)]>>]
  /\ req' = [req EXCEPT ![r].state = "Completed"]
  /\ UNCHANGED <<variant, alive, now, nextId, res, scraped, thrown, ticks>>

\* res.on('finish', ...): the response has been handed to the socket.
Finish(r) ==
  /\ alive
  /\ Holding = {}
  /\ req[r].pc = "ended"
  /\ req[r].state = "Started"
  /\ counter' = inc(counter, IncLabels(r))
  /\ hist' = observe(hist, ObserveLabels(r), Duration(r))
  /\ log' = Append(log, CompletedRec(r))
  /\ calls' = [calls EXCEPT ![r] = @ \o <<[op |-> "inc", labels |-> IncLabels(r)],
                                          [op |-> "observe", labels |-> ObserveLabels(r)]>>]
  /\ req' = [req EXCEPT ![r].pc = "done", ![r].state = "Completed"]
  /\ UNCHANGED <<variant, alive, now, nextId, res, scraped, thrown, ticks>>

\* A faulty middleware that also records on the response's 'close' event.
AbortRecords(r) ==
  /\ alive
  /\ req[r].state = "Started"
  /\ req[r].pc \in {"delay", "awaitMetrics"}
  /\ counter' = inc(counter, IncLabels(r))
  /\ hist' = observe(hist, ObserveLabels(r), Duration(r))
  /\ log' = Append(log, CompletedRec(r))
  /\ calls' = [calls EXCEPT ![r] = @ \o <<[op |-> "inc", labels |-> IncLabels(r)],
                                          [op |-> "observe", labels |-> ObserveLabels(r)]>>]
  /\ req' = [req EXCEPT ![r].state = "Aborted"]
  /\ UNCHANGED <<variant, alive, now, nextId, res, scraped, thrown, ticks>>

\* The client drops the connection while the handler is still waiting: the
\* response never finishes, so the 'finish' listener never runs.
Abort(r) ==
  /\ alive
  /\ req[r].state = "Started"
  /\ req[r].pc \in {"delay", "awaitMetrics"}
  /\ req' = [req EXCEPT ![r].state = "Aborted"]
  /\ UNCHANGED <<variant, alive, now, nextId, res, counter, hist, log, calls,
                 scraped, thrown, ticks>>

\* Time passes: Date.now() advances and the pending timers run down.
Tick(d) ==
  /\ alive
  /\ ticks < MaxTicks
  /\ ticks' = ticks + 1
  /\ now' = now + d
  /\ req' = [r \in Reqs |->
               [req[r] EXCEPT !.timer = IF @ > d THEN @ - d ELSE 0]]
  /\ UNCHANGED <<variant, alive, nextId, res, counter, hist, log, calls, scraped, thrown>>

Next ==
  \/ \E m \in Methods, p \in Paths : Enter(m, p)
  \/ \E r \in Reqs : TimerFire(r)
  \/ \E r \in Reqs : MetricsSend(r)
  \/ \E r \in Reqs : Finish(r)
  \/ \E r \in Reqs : Abort(r)
  \/ \E d \in TickSteps : Tick(d)

Spec == Init /\ [][Next]_vars

\* The completion callback has no try/catch: when a registry call throws, the
\* rest of the callback is skipped and the exception leaves the 'finish'
\* emitter uncaught, which ends the process.  at is the call that throws.
FinishThrows(r, at) ==
  /\ alive
  /\ Holding = {}
  /\ req[r].pc = "ended"
  /\ req[r].state = "Started"
  /\ counter' = IF at = "observe" THEN inc(counter, IncLabels(r)) ELSE counter
  /\ calls' = IF at = "observe"
              THEN [calls EXCEPT ![r] = @ \o <<[op |-> "inc", labels |-> IncLabels(r)]>>]
              ELSE calls
  /\ thrown' = thrown \cup {r}
  /\ alive' = FALSE
  /\ req' = [req EXCEPT ![r].pc = "done", ![r].state = "Completed"]
  /\ UNCHANGED <<variant, now, nextId, res, hist, log, scraped, ticks>>

\* The service with a registry whose calls may throw.
NextFault ==
  \/ Next
  \/ \E r \in Reqs, at \in {"inc", "observe"} : FinishThrows(r, at)

SpecFault == Init /\ [][NextFault]_vars

\* The system clock is set back (an NTP step, an operator's date change):
\* Date.now() drops; the timers, which run on the monotonic clock, do not.
ClockBack(d) ==
  /\ alive
  /\ now >= d
  /\ now' = now - d
  /\ UNCHANGED <<variant, alive, nextId, req, res, counter, hist, log, calls,
                 scraped, thrown, ticks>>

\* The service on a machine whose wall clock may be set back.
NextClock ==
  \/ Next
  \/ \E d \in TickSteps : ClockBack(d)

SpecClock == Init /\ [][NextClock]_vars

\* Response times on, next to and beyond the histogram's bounds: the lowest
\* bound, just above it, the highest bound, just above it.
ObserveSteps ==
  {Buckets[1], Buckets[1] + 1, Buckets[Len(Buckets)], Buckets[Len(Buckets)] + 1}

\* The service answering GET /normal and GET /abnormal, with responses that
\* take those times to finish.
NextObserve ==
  \/ \E p \in {"/normal", "/abnormal"} : Enter("GET", p)
  \/ \E r \in Reqs : TimerFire(r)
  \/ \E r \in Reqs : Finish(r)
  \/ \E d \in ObserveSteps : Tick(d)

SpecObserve == Init /\ [][NextObserve]_vars

\* Time passes beyond the last clock reading the model follows: the pending
\* timers still run down.
TimerElapse(d) ==
  /\ alive
  /\ ticks = MaxTicks
  /\ \E r \in Reqs : req[r].timer > 0
  /\ req' = [r \in Reqs |->
               [req[r] EXCEPT !.timer = IF @ > d THEN @ - d ELSE 0]]
  /\ UNCHANGED <<variant, alive, now, nextId, res, counter, hist, log, calls,
                 scraped, thrown, ticks>>

TimePasses == \E d \in TickSteps : Tick(d) \/ TimerElapse(d)

\* The service with no dropped connection, receiving GET requests on its
\* three routes.
NextLive ==
  \/ \E p \in Routes : Enter("GET", p)
  \/ \E r \in Reqs : TimerFire(r)
  \/ \E r \in Reqs : MetricsSend(r)
  \/ \E r \in Reqs : Finish(r)
  \/ \E d \in TickSteps : Tick(d)
  \/ \E d \in TickSteps : TimerElapse(d)

\* The event loop runs every callback that is ready, and time passes.
SpecLive ==
  /\ Init
  /\ [][NextLive]_vars
  /\ WF_vars(TimePasses)
  /\ \A r \in Reqs :
       WF_vars(TimerFire(r)) /\ WF_vars(MetricsSend(r)) /\ WF_vars(Finish(r))

\* ----------------------------------------------------------------- claims
Completed(r) == req[r].state = "Completed"

\* The label combination of a request, read off the request and its response.
LabelsOf(r) ==
  [method |-> req[r].method, endpoint |-> req[r].path, status |-> res[r].statusCode]

CounterValue(l) == IF l \in DOMAIN counter THEN counter[l] ELSE 0

AllLabels ==
  [method : Methods, endpoint : Paths, status : {StatusOk, StatusError, StatusNotFound}]

LogIndexes(r, message) ==
  {i \in 1..Len(log) : log[i].req = r /\ log[i].message = message}

CallIndexes(r, op) == {i \in 1..Len(calls[r]) : calls[r][i].op = op}

\* C1: after any interleaving of request completions, the counter of every
\* label combination equals the number of requests completed with that
\* combination (its value before them, 0 for a series not yet created, plus
\* one per completion): no update is lost.
C1_NoLostUpdate ==
  \A l \in AllLabels :
    CounterValue(l) = Cardinality({r \in Reqs : Completed(r) /\ LabelsOf(r) = l})

\* Two requests of one label combination were in flight together (the second
\* arrived before the first completed) and both have completed.
C1_Witness ==
  /\ Completed(1) /\ Completed(2)
  /\ LabelsOf(1) = LabelsOf(2)
  /\ \E i, j \in 1..Len(log) :
       /\ i < j
       /\ log[i].req = 2
       /\ log[j].req = 1 /\ log[j].message = "Request completed"

FailureLogged(r) ==
  \E i \in 1..Len(log) :
    /\ log[i].req = r
    /\ log[i].level = "error"
    /\ log[i].message # "Internal Server Error occurred"

\* C3: when a registry call throws inside a request's completion callback, the
\* failure is logged and the process keeps running.
C3_FailureIsolated == \A r \in thrown : alive /\ FailureLogged(r)

\* C4: every existing series carries a registered route as its endpoint label.
C4_RouteTemplateLabels ==
  \A l \in DOMAIN counter \cup DOMAIN hist : l.endpoint \in Routes

\* C5: what a scrape read reports the same series in the counter and in the
\* histogram, and for each of them the counter's value equals the
\* histogram's count, whatever completions ran before, during or after it.
C5_ConsistentSnapshot ==
  \A r \in DOMAIN scraped :
    /\ DOMAIN scraped[r].counter = DOMAIN scraped[r].hist
    /\ \A l \in DOMAIN scraped[r].counter :
         scraped[r].counter[l] = scraped[r].hist[l].count

\* A scrape's response has been sent, and a completion that ran between its
\* read of the registry and its response has moved the registry on.
C5_Witness ==
  \E r \in DOMAIN scraped :
    /\ res[r].ended
    /\ req[r].state = "Started"
    /\ counter # scraped[r].counter

\* A scrape read a registry that already held a series.
C5_WitnessNonEmpty ==
  \E r \in DOMAIN scraped : res[r].ended /\ DOMAIN scraped[r].counter # {}

\* The series of label combination l is the same in registries (c1, h1) and (c2, h2).
SameSeries(c1, h1, c2, h2, l) ==
  /\ (l \in DOMAIN c1) = (l \in DOMAIN c2)
  /\ (l \in DOMAIN h1) = (l \in DOMAIN h2)
  /\ (l \in DOMAIN c1 /\ l \in DOMAIN c2) => c1[l] = c2[l]
  /\ (l \in DOMAIN h1 /\ l \in DOMAIN h2) => h1[l] = h2[l]

IsScrape(r) == req[r].method = "GET" /\ req[r].path = "/metrics"

\* Request r takes a step: it arrives, its handler resumes, or it ends.
Moves(r) == req'[r].pc # req[r].pc \/ req'[r].state # req[r].state

\* C6 as stated: no step of a GET /metrics request, from its entry to its
\* completion, changes any series of the registry.
C6_ScrapeChangesNothing ==
  [][\A r \in Reqs :
       (IsScrape(r)' /\ Moves(r)) => (counter' = counter /\ hist' = hist)]_vars

\* C6 as amended: the steps of the /metrics handler (entry, the read of the
\* registry, the response) change no series; the completion of the request
\* changes the series of its own combination (GET, /metrics, 200) and no other.
C6_HandlerReadOnly ==
  [][\A r \in Reqs :
       (IsScrape(r)' /\ Moves(r)) =>
         IF Completed(r)'
         THEN \A l \in (DOMAIN counter \cup DOMAIN counter' \cup DOMAIN hist
                        \cup DOMAIN hist') \ {LabelsOf(r)} :
                SameSeries(counter, hist, counter', hist', l)
         ELSE counter' = counter /\ hist' = hist]_vars

\* A scrape that read a non-empty registry has completed and been counted.
C6_Witness ==
  \E r \in DOMAIN scraped :
    /\ Completed(r)
    /\ DOMAIN scraped[r].counter # {}
    /\ CounterValue([method |-> "GET", endpoint |-> "/metrics", status |-> StatusOk]) = 1
    /\ \A l \in DOMAIN scraped[r].counter : counter[l] = scraped[r].counter[l]

\* C7: while a slow request waits out its delay, a new request can enter, a
\* sent response can be recorded and a scrape can be answered.
C7_DelayBlocksNoOne ==
  \A s \in Reqs :
    (req[s].pc = "delay" /\ req[s].timer > 0) =>
      /\ nextId <= MaxReqs =>
           (ENABLED Enter("GET", "/normal") /\ ENABLED Enter("GET", "/metrics"))
      /\ \A r \in Reqs \ {s} :
           /\ (req[r].pc = "ended" /\ req[r].state = "Started") => ENABLED Finish(r)
           /\ req[r].pc = "awaitMetrics" => ENABLED MetricsSend(r)

\* A request that arrived after a slow one began its delay has completed and
\* been counted while the slow one is still waiting.
C7_Witness ==
  \E s, r \in Reqs :
    /\ s < r
    /\ req[s].pc = "delay" /\ req[s].timer > 0 /\ req[s].state = "Started"
    /\ Completed(r)
    /\ req[r].path = "/normal"
    /\ CounterValue(LabelsOf(r)) = 1

\* C8: a request answered with the simulated 500 has an error-severity record,
\* is counted and observed under status 500 once completed, and the process
\* is still running.
C8_ErrorLoggedAndCounted ==
  \A r \in Reqs :
    (res[r].ended /\ res[r].statusCode = StatusError) =>
      /\ \E i \in 1..Len(log) : log[i].req = r /\ log[i].level = "error"
      /\ alive
      /\ Completed(r) =>
           /\ CounterValue([method |-> "GET", endpoint |-> "/abnormal",
                            status |-> StatusError]) >= 1
           /\ [method |-> "GET", endpoint |-> "/abnormal", status |-> StatusError]
                \in DOMAIN hist

\* C9: the increment, the observation and the 'Request completed' record of a
\* completed request carry the same method, endpoint and status, the status
\* being that of the response sent: 200 for /normal, 200 or 500 for /abnormal.
C9_SameLabels ==
  \A r \in Reqs :
    Completed(r) =>
      /\ calls[r] = <<[op |-> "inc", labels |-> LabelsOf(r)],
                      [op |-> "observe", labels |-> LabelsOf(r)]>>
      /\ \A i \in LogIndexes(r, "Request completed") :
           /\ log[i].meta.method = req[r].method
           /\ log[i].meta.endpoint = req[r].path
           /\ log[i].meta.status = res[r].statusCode
      /\ LogIndexes(r, "Request completed") # {}
      /\ res[r].ended
      /\ (req[r].method = "GET" /\ req[r].path = "/normal") =>
           (res[r].statusCode = StatusOk /\ res[r].body = NormalBody)
      /\ (req[r].method = "GET" /\ req[r].path = "/abnormal") =>
           \/ res[r].statusCode = StatusOk /\ res[r].body \in {FastBody, SlowBody}
           \/ res[r].statusCode = StatusError /\ res[r].body = ErrorBody

\* An /abnormal request answered 500 and a request answered 200 have both
\* completed.
C9_Witness ==
  \E r, s \in Reqs :
    /\ Completed(r) /\ req[r].path = "/abnormal" /\ res[r].statusCode = StatusError
    /\ Completed(s) /\ res[s].statusCode = StatusOk
    /\ counter[LabelsOf(r)] = 1

\* A request is in flight: received, and neither completed nor dropped.
Started(r) == req[r].state = "Started"

\* C10: a step in which no request completes changes no series, and a request
\* that is still Started has made no registry call and has no completion record.
C10_NothingBeforeCompletion ==
  /\ [][(\A r \in Reqs : Completed(r)' => Completed(r))
          => (counter' = counter /\ hist' = hist)]_vars
  /\ [](\A r \in Reqs :
          Started(r) => (calls[r] = <<>> /\ LogIndexes(r, "Request completed") = {}))
  /\ [](\A l \in DOMAIN counter : \E r \in Reqs : Completed(r) /\ LabelsOf(r) = l)

\* A slow request has waited out its delay and is still Started, and no
\* series exists.
C10_Witness ==
  \E r \in Reqs :
    /\ Started(r)
    /\ req[r].pc = "delay"
    /\ now >= req[r].start + DelayMs
    /\ counter = <<>> /\ hist = <<>>

\* C11: the duration handed to the histogram and to the log is never
\* negative, also when the wall clock is set back while a request is in flight.
C11_DurationNonNegative ==
  /\ \A l \in DOMAIN hist : hist[l].sum >= 0
  /\ \A i \in 1..Len(log) :
       log[i].message = "Request completed" => log[i].meta.duration >= 0

\* The sequence s never decreases.
NonDecreasing(s) == \A i, j \in 1..Len(s) : i <= j => s[i] <= s[j]

\* C12: for every series of the histogram the bucket counts never decrease as
\* the bound grows, through the ten configured bounds up to +Inf, and the
\* +Inf bucket equals the series' count.
C12_CumulativeBuckets ==
  \A l \in DOMAIN hist :
    /\ Len(BucketLines(hist[l])) = Len(Buckets) + 1
    /\ NonDecreasing(BucketLines(hist[l]))
    /\ BucketLines(hist[l])[Len(Buckets) + 1] = hist[l].count
    /\ \A i \in 1..Len(Buckets) : hist[l].buckets[i] <= hist[l].count

\* A series holds one value within the lowest bound and one above the highest:
\* its finite buckets all stand at 1 and +Inf at 2.
C12_Witness ==
  \E l \in DOMAIN hist :
    /\ hist[l].buckets[1] = 1
    /\ hist[l].buckets[Len(Buckets)] = 1
    /\ hist[l].count = 2

\* The series of l before its first observation.
SeriesBefore(l) ==
  IF l \in DOMAIN hist THEN hist[l]
  ELSE [count |-> 0, sum |-> 0, buckets |-> [i \in 1..Len(Buckets) |-> 0]]

\* C13: the observation made when a request completes after v milliseconds
\* raises its series' count by 1, its sum by v, every bucket whose bound is
\* >= v by 1 and no bucket whose bound is < v; a value above the largest
\* bound changes no finite bucket.
C13_OneObservation ==
  [][\A r \in Reqs :
       (Completed(r)' /\ ~Completed(r)) =>
         LET l == LabelsOf(r)
             v == now - req[r].start
             e == SeriesBefore(l)
         IN /\ l \in DOMAIN hist'
            /\ hist'[l].count = e.count + 1
            /\ hist'[l].sum = e.sum + v
            /\ \A i \in 1..Len(Buckets) :
                 hist'[l].buckets[i] =
                   IF Buckets[i] >= v THEN e.buckets[i] + 1 ELSE e.buckets[i]
            /\ v > Buckets[Len(Buckets)] => hist'[l].buckets = e.buckets]_vars

\* A value above the largest bound has been observed: it is in the count and
\* the sum of its series and in none of the finite buckets.
C13_Witness ==
  \E l \in DOMAIN hist :
    /\ hist[l].count = 1
    /\ hist[l].sum > Buckets[Len(Buckets)]
    /\ \A i \in 1..Len(Buckets) : hist[l].buckets[i] = 0

\* C14: no step lowers or removes a counter series, and a series exists for a
\* label combination exactly when a request with that combination has completed.
C14_CounterSeries ==
  /\ [][\A l \in DOMAIN counter :
          l \in DOMAIN counter' /\ counter'[l] >= counter[l]]_vars
  /\ [](\A l \in AllLabels \cup DOMAIN counter :
          (l \in DOMAIN counter) <=>
            (\E r \in Reqs : Completed(r) /\ LabelsOf(r) = l))

\* A series created by one completion has been raised by a second, while a
\* combination nobody completed with has no series.
C14_Witness ==
  \E l \in DOMAIN counter :
    /\ counter[l] = 2
    /\ DOMAIN counter = {l}

IsNormal(r) == req[r].method = "GET" /\ req[r].path = "/normal"

NormalLabels == [method |-> "GET", endpoint |-> "/normal", status |-> StatusOk]

\* C15: a GET /normal request is answered at once with status 200 and the
\* body {"message":"This is a normal API response"}, and its completion raises
\* http_requests_total{method="GET",endpoint="/normal",status="200"} by 1.
C15_NormalScenario ==
  /\ [](\A r \in Reqs :
          (IsNormal(r) /\ req[r].state # "None") =>
            res[r] = [statusCode |-> StatusOk, body |-> NormalBody, ended |-> TRUE])
  /\ [][\A r \in Reqs :
          (IsNormal(r) /\ Completed(r)' /\ ~Completed(r)) =>
            CounterValue(NormalLabels)' = CounterValue(NormalLabels) + 1]_vars

\* A GET /normal request has completed and its series stands at 1.
C15_Witness ==
  \E r \in Reqs :
    /\ IsNormal(r) /\ Completed(r)
    /\ res[r].body = NormalBody
    /\ CounterValue(NormalLabels) = 1

IsAbnormal(r) ==
  req[r].method = "GET" /\ req[r].path = "/abnormal" /\ req[r].state # "None"

\* C16: a GET /abnormal invocation holds one random value (in hundredths),
\* which alone fixes its one response: below 0.3 an immediate 200 'Fast
\* response', from 0.3 to below 0.6 an immediate 500 'Internal Server Error',
\* from 0.6 on a 200 'Slow response' that is sent no earlier than 3000 ms after
\* entry and until then not at all; a response once sent is never replaced.
C16_OneResponsePerBand ==
  /\ [](\A r \in Reqs :
          IsAbnormal(r) =>
            /\ req[r].random \in RandomValues
            /\ req[r].random < 30 =>
                 res[r] = [statusCode |-> 200, body |-> FastBody, ended |-> TRUE]
            /\ (req[r].random >= 30 /\ req[r].random < 60) =>
                 res[r] = [statusCode |-> 500, body |-> ErrorBody, ended |-> TRUE]
            /\ req[r].random >= 60 =>
                 IF res[r].ended
                 THEN /\ res[r] = [statusCode |-> 200, body |-> SlowBody, ended |-> TRUE]
                      /\ now >= req[r].start + 3000
                      /\ req[r].timer = 0
                      /\ req[r].pc # "delay"
                 ELSE /\ res[r] = [statusCode |-> 200, body |-> "", ended |-> FALSE]
                      /\ req[r].pc = "delay")
  /\ [][\A r \in Reqs :
          /\ res[r].ended => res'[r] = res[r]
          /\ IsAbnormal(r) => req'[r].random = req[r].random]_vars

\* A slow response has been sent after its delay, next to a request of
\* another band that was answered at once.
C16_Witness ==
  \E r, s \in Reqs :
    /\ IsAbnormal(r) /\ req[r].random >= 60 /\ res[r].ended
    /\ IsAbnormal(s) /\ req[s].random < 60 /\ res[s].ended

OfLevel(level) == LET Is(rec) == rec.level = level IN SelectSeq(log, Is)

\* C17: whatever the logger's level, the error file holds exactly the records
\* of severity error, while the application file and the console hold every
\* record, info ones included; in the Loki build both sinks hold every record.
C17_SinkLevels ==
  \A ll \in LoggerLevels :
    /\ \A sink \in Sinks \ {"errorFile"} : SinkContents(sink, ll) = log
    /\ variant = "index" =>
         /\ SinkContents("errorFile", ll) = OfLevel("error")
         /\ \A i \in 1..Len(SinkContents("errorFile", ll)) :
              SinkContents("errorFile", ll)[i].message = "Internal Server Error occurred"

\* The logger has been given info and error records: the error file holds the
\* one error record and the application file holds more.
C17_Witness ==
  /\ variant = "index"
  /\ Len(SinkContents("errorFile", "info")) = 1
  /\ Len(SinkContents("applicationFile", "info")) >= 4
  /\ Len(SinkContents("console", "debug")) >= 4

Aborted(r) == req[r].state = "Aborted"

\* C18: a request's state only moves None -> Started -> Completed or
\* None -> Started -> Aborted, and Completed and Aborted are never left; a
\* dropped request is skipped by the instrumentation: neither the step that
\* drops it nor any later step of it changes a series, and it never has a
\* registry call or a 'Request completed' record.
C18_AbortSkipsRecording ==
  /\ [][\A r \in Reqs :
          /\ Completed(r) => Completed(r)'
          /\ Aborted(r) => Aborted(r)'
          /\ req'[r].state # req[r].state =>
               <<req[r].state, req'[r].state>> \in
                 {<<"None", "Started">>, <<"Started", "Completed">>,
                  <<"Started", "Aborted">>}
          /\ (Aborted(r)' /\ Moves(r)) => (counter' = counter /\ hist' = hist)]_vars
  /\ [](\A r \in Reqs :
          Aborted(r) =>
            (calls[r] = <<>> /\ LogIndexes(r, "Request completed") = {}))

\* A slow request was dropped during its delay, its timer has fired since, and
\* it has left no trace in the registry, while another request has completed.
C18_Witness ==
  \E r, s \in Reqs :
    /\ Aborted(r)
    /\ req[r].pc = "done" /\ res[r].body = SlowBody
    /\ calls[r] = <<>>
    /\ Completed(s)
    /\ DOMAIN counter = {LabelsOf(s)}

\* C19: with callbacks and timers scheduled fairly and no connection dropped,
\* every request received on /normal, /abnormal or /metrics eventually is
\* Completed and counted in its series.
C19_EventuallyRecorded ==
  \A r \in Reqs :
    Started(r) ~> (Completed(r) /\ CounterValue(LabelsOf(r)) >= 1)

\* A slow request has completed and been counted while a later request is
\* still in flight.
C19_Witness ==
  \E r, s \in Reqs :
    /\ req[r].random >= ErrorBand
    /\ Completed(r) /\ res[r].body = SlowBody
    /\ CounterValue(LabelsOf(r)) = 1
    /\ r < s /\ Started(s)

\* C20: the step that completes a request changes the counter series and the
\* histogram series of that request's own (method, endpoint, status)
\* combination and leaves the series of every other combination as it was.
C20_OnlyOwnSeries ==
  [][\A r \in Reqs :
       (~Completed(r) /\ Completed(r)') =>
         /\ \A l \in (DOMAIN counter \cup DOMAIN counter' \cup
                      DOMAIN hist \cup DOMAIN hist') \ {LabelsOf(r)'} :
              SameSeries(counter, hist, counter', hist', l)
         /\ ~SameSeries(counter, hist, counter', hist', LabelsOf(r)')]_vars

\* Two requests of different label combinations have completed, the later
\* one while the series of the earlier one already existed.
C20_Witness ==
  \E r, s \in Reqs :
    /\ r # s /\ Completed(r) /\ Completed(s)
    /\ LabelsOf(r) # LabelsOf(s)
    /\ CounterValue(LabelsOf(r)) = 1 /\ CounterValue(LabelsOf(s)) = 1
    /\ hist[LabelsOf(r)].count = 1 /\ hist[LabelsOf(s)].count = 1
    /\ hist[LabelsOf(r)].sum # hist[LabelsOf(s)].sum

====
